---- MODULE Spec2Model ----
(***************************************************************************)
(* Model of itutrain.py: the ITU prefix trainer.  One run of the program   *)
(* reads the fact database, loads the pickled history, builds the forward  *)
(* and reverse training sets, asks the questions, grades the answers and   *)
(* writes the history back through a temporary file.                       *)
(*                                                                         *)
(* Strings are sequences of one-character strings.  Scores are integers    *)
(* in units of 1/Scale, so that every score the grading can produce and    *)
(* every comparison with a threshold is exact.                             *)
(***************************************************************************)
EXTENDS Integers, Sequences, FiniteSets, TLC

VARIABLES
    database,        \* the rows of the fact database file (args.database)
    keyboard,        \* the lines the user may type at the two prompts
    disk,            \* the file at the history path (args.trainfile)
    tmp,             \* the NamedTemporaryFile of write_trainfile
    pc,              \* position of the process
    db,              \* sorted(read_database(...)), the fact store
    traindata,       \* the history dict of train()
    forward,         \* the forward session list
    reverse,         \* the reverse session list
    part,            \* to_train / already_trained of each direction
    idx,             \* number of questions asked in the current phase
    forward_score,   \* running total of train_forward
    reverse_score,   \* running total of train_reverse
    invalid,         \* submissions refused at the current prompt
    interrupted,     \* a KeyboardInterrupt is propagating
    disk0,           \* the file at the history path when the run started
    loaded,          \* traindata as loaded, before the first question
    asked,           \* log of the graded questions of this run
    runs,            \* number of runs started so far
    prev,            \* the previous run, if it left the history file as found
    calc             \* a call of a codec function: its arguments and result

vars == <<database, keyboard, disk, tmp, pc, db, traindata, forward, reverse,
          part, idx, forward_score, reverse_score, invalid, interrupted,
          disk0, loaded, asked, runs, prev, calc>>

-----------------------------------------------------------------------------
(* Bounds of the model.                                                    *)

\* The seed is random.SystemRandom().getrandbits(32); seeds are 0..MaxSeed.
MaxSeed == 1

\* Longest history drawn for a pair in the scheduler's inputs.
MaxHist == 6

\* Submissions refused at one prompt before the model stops counting.
MaxInvalid == 2

\* Runs of the program in one behaviour.
MaxRuns == 2

\* TRAIN_SET_SIZE is 15 and TRAIN_RETRAIN is 5 in the source.  The model
\* scales both down so that a database of three or four facts reaches the
\* truncation of to_train and the retrain slots; the scheduler uses them
\* only through the slices of lines 142-143.
TRAIN_SET_SIZE == 2

TRAIN_RETRAIN == 1

-----------------------------------------------------------------------------
(* Program constants.                                                      *)

TRAIN_KEEP == 5

\* TRAIN_THRESHOLD = 0.8 = ThresholdNum / ThresholdDen
ThresholdNum == 4

ThresholdDen == 5

\* TRAIN_CORRECT_THRESHOLD = 0.7 = CorrectNum / CorrectDen
CorrectNum == 7

CorrectDen == 10

\* prio = 100 at the start of read_database
DefaultPrio == 100

\* the radix of the prefix numeral system
Radix == 37

-----------------------------------------------------------------------------
(* Generic helpers.                                                        *)

Min(a, b) == IF a < b THEN a ELSE b

Max(a, b) == IF a > b THEN a ELSE b

Range(s) == {s[i] : i \in 1..Len(s)}

RECURSIVE SumSeq(_)
SumSeq(s) == IF s = <<>> THEN 0 ELSE s[1] + SumSeq(Tail(s))

RECURSIVE Flatten(_)
Flatten(ss) == IF ss = <<>> THEN <<>> ELSE ss[1] \o Flatten(Tail(ss))

\* s[:n] for n >= 0
Take(s, n) == SubSeq(s, 1, Min(n, Len(s)))

\* s[-n:] for n > 0
LastN(s, n) == SubSeq(s, Max(1, Len(s) - n + 1), Len(s))

Perms(n) ==
    {p \in [1..n -> 1..n] : \A i, j \in 1..n : p[i] = p[j] => i = j}

Permute(s, p) == [i \in 1..Len(s) |-> s[p[i]]]

\* a Python dict is a function; {} is the function with the empty domain
EmptyDict == <<>>

DictGet(d, k, default) == IF k \in DOMAIN d THEN d[k] ELSE default

DictPut(d, k, v) == [x \in DOMAIN d \cup {k} |-> IF x = k THEN v ELSE d[x]]

SetDefault(d, k, v) == IF k \in DOMAIN d THEN d ELSE DictPut(d, k, v)

-----------------------------------------------------------------------------
(* Characters: string comparison of sorted() follows the code points.      *)

Ascii == <<" ", ",", "-", "0", "1", "2", "3", "4", "5", "6", "7", "8", "9",
           "?", "A", "B", "C", "D", "E", "F", "G", "H", "I", "J", "K", "L",
           "M", "N", "O", "P", "Q", "R", "S", "T", "U", "V", "W", "X", "Y",
           "Z">>

Ord(c) == CHOOSE i \in 1..Len(Ascii) : Ascii[i] = c

\* the digits of the numeral system in the order of their values 0..36
Digits == <<" ", "0", "1", "2", "3", "4", "5", "6", "7", "8", "9",
            "A", "B", "C", "D", "E", "F", "G", "H", "I", "J", "K", "L",
            "M", "N", "O", "P", "Q", "R", "S", "T", "U", "V", "W", "X", "Y",
            "Z">>

\* the class [A-Z0-9] of the two regular expressions
AlNum == Range(Digits) \ {" "}

PREFIXCHAR_TO_BASE37 ==
    [c \in Range(Digits) |-> (CHOOSE i \in 1..Len(Digits) : Digits[i] = c) - 1]

BASE37_TO_PREFIXCHAR == [v \in 0..(Radix - 1) |-> Digits[v + 1]]

RECURSIVE Pow(_, _)
Pow(b, i) == IF i = 0 THEN 1 ELSE b * Pow(b, i - 1)

\* result += PREFIXCHAR_TO_BASE37[c]*(37**i) for i, c in enumerate(reversed(p))
RECURSIVE Base37Sum(_, _)
Base37Sum(p, i) ==
    IF i >= Len(p) THEN 0
    ELSE PREFIXCHAR_TO_BASE37[p[Len(p) - i]] * Pow(Radix, i) + Base37Sum(p, i + 1)

prefix_to_base37(p) == Base37Sum(p, 0)

\* the list `result` of base37_to_prefix, least significant digit first
RECURSIVE Base37Digits(_)
Base37Digits(num) ==
    IF num > 0
    THEN <<BASE37_TO_PREFIXCHAR[num % Radix]>> \o Base37Digits(num \div Radix)
    ELSE <<>>

Reversed(s) == [i \in 1..Len(s) |-> s[Len(s) + 1 - i]]

base37_to_prefix(num) == Reversed(Base37Digits(num))

\* A generator either yields its items or raises ValueError: the caller
\* (tuple(...) or set(...)) then has no value at all.
Raise == [err |-> TRUE, items |-> <<>>]

Yield(items) == [err |-> FALSE, items |-> items]

\* expand_prefixset, had the range been range(lo, hi): the end left out
expand_prefixset_exclusive(start, end) ==
    LET lo == prefix_to_base37(start)
        hi == prefix_to_base37(end)
    IN  IF hi - lo <= 0
        THEN Raise
        ELSE Yield([i \in 1..(hi - lo) |-> base37_to_prefix(lo + i - 1)])

expand_prefixset(start, end) ==
    LET lo == prefix_to_base37(start)
        hi == prefix_to_base37(end)
    IN  IF hi + 1 - lo <= 0
        THEN Raise
        ELSE Yield([i \in 1..(hi + 1 - lo) |-> base37_to_prefix(lo + i - 1)])

IsAlNumRun(s) == s # <<>> /\ \A i \in 1..Len(s) : s[i] \in AlNum

\* PREFIX_SET_RE = ^([A-Z0-9]+)-+([A-Z0-9]+)$ : the positions of the last
\* character of group 1 and of the last hyphen, or <<>> when no match
SetMatch(t) ==
    LET splits == {ij \in (1..Len(t)) \X (1..Len(t)) :
                      /\ ij[1] < ij[2]
                      /\ ij[2] < Len(t)
                      /\ IsAlNumRun(SubSeq(t, 1, ij[1]))
                      /\ \A k \in (ij[1] + 1)..ij[2] : t[k] = "-"
                      /\ IsAlNumRun(SubSeq(t, ij[2] + 1, Len(t)))}
    IN  IF splits = {} THEN <<>> ELSE CHOOSE ij \in splits : TRUE

expand_part(t) ==
    LET m == SetMatch(t)
    IN  IF m # <<>>
        THEN expand_prefixset(SubSeq(t, 1, m[1]), SubSeq(t, m[2] + 1, Len(t)))
        ELSE IF IsAlNumRun(t)      \* PREFIX_SINGLE_RE
        THEN Yield(<<t>>)
        ELSE Raise

expand_prefixes(parts) ==
    LET each == [i \in 1..Len(parts) |-> expand_part(parts[i])]
    IN  IF \E i \in 1..Len(parts) : each[i].err
        THEN Raise
        ELSE Yield(Flatten([i \in 1..Len(parts) |-> each[i].items]))

-----------------------------------------------------------------------------
(* The fact database.  A row of the file is either a `#prio n` row or a    *)
(* fact row: the country and the prefix tokens that follow it.             *)

PrioRow(n) == [kind |-> "prio", prio |-> n, country |-> <<>>, parts |-> <<>>]

FactRow(country, parts) ==
    [kind |-> "fact", prio |-> 0, country |-> country, parts |-> parts]

\* ReadRows, had a row whose tokens do not expand been skipped
RECURSIVE ReadRows_skips_bad(_, _)
ReadRows_skips_bad(rows, prio) ==
    IF rows = <<>> THEN Yield(<<>>)
    ELSE IF rows[1].kind = "prio" THEN ReadRows_skips_bad(Tail(rows), rows[1].prio)
    ELSE LET prefixes == expand_prefixes(rows[1].parts)
             rest == ReadRows_skips_bad(Tail(rows), prio)
         IN  IF prefixes.err
             THEN rest
             ELSE Yield(<<<<rows[1].country, prio, prefixes.items>>>>
                        \o rest.items)

RECURSIVE ReadRows(_, _)
ReadRows(rows, prio) ==
    IF rows = <<>> THEN Yield(<<>>)
    ELSE IF rows[1].kind = "prio" THEN ReadRows(Tail(rows), rows[1].prio)
    ELSE LET prefixes == expand_prefixes(rows[1].parts)
             rest == ReadRows(Tail(rows), prio)
         IN  IF prefixes.err \/ rest.err
             THEN Raise
             ELSE Yield(<<<<rows[1].country, prio, prefixes.items>>>>
                        \o rest.items)

read_database(infile) == ReadRows(infile, DefaultPrio)

\* str < str
StrLess(a, b) ==
    \E k \in 1..(Len(a) + 1) :
        /\ \A i \in 1..(k - 1) : i <= Len(b) /\ a[i] = b[i]
        /\ k <= Len(b)
        /\ k > Len(a) \/ Ord(a[k]) < Ord(b[k])

\* tuple of str < tuple of str
StrTupleLess(a, b) ==
    \E k \in 1..(Len(a) + 1) :
        /\ \A i \in 1..(k - 1) : i <= Len(b) /\ a[i] = b[i]
        /\ k <= Len(b)
        /\ k > Len(a) \/ StrLess(a[k], b[k])

\* (country, prio, prefixes) < (country, prio, prefixes)
FactLess(f, g) ==
    \/ StrLess(f[1], g[1])
    \/ f[1] = g[1] /\ f[2] < g[2]
    \/ f[1] = g[1] /\ f[2] = g[2] /\ StrTupleLess(f[3], g[3])

\* sorted(s) of line 361
SortedFacts(s) ==
    LET pos(i) == 1 + Cardinality({j \in 1..Len(s) :
                        \/ FactLess(s[j], s[i])
                        \/ ~FactLess(s[i], s[j]) /\ j < i})
    IN  [k \in 1..Len(s) |-> s[CHOOSE i \in 1..Len(s) : pos(i) = k]]

\* db = sorted(read_database(args.database))
LoadDatabase(infile) ==
    LET r == read_database(infile)
    IN  IF r.err THEN Raise ELSE Yield(SortedFacts(r.items))

-----------------------------------------------------------------------------
(* The seeded random source.  random.Random(seed) is a deterministic       *)
(* stream; the model reads the seed as a mixed-radix numeral, so that the  *)
(* seeds 0..MaxSeed reach the different outcomes of the group shuffles.    *)
(* shuffle is the Fisher-Yates loop of the library.                        *)

RECURSIVE FisherYates(_, _, _)
FisherYates(x, i, state) ==
    IF i < 2 THEN [list |-> x, state |-> state]
    ELSE LET j == (state % i) + 1
             y == [x EXCEPT ![i] = x[j], ![j] = x[i]]
         IN  FisherYates(y, i - 1, state \div i)

RngShuffle(x, state) == FisherYates(x, Len(x), state)

\* the length of the first run of rows of equal priority (itertools.groupby)
RECURSIVE RunLength(_)
RunLength(rows) ==
    IF Len(rows) < 2 THEN Len(rows)
    ELSE IF rows[2][2] # rows[1][2] THEN 1
    ELSE 1 + RunLength(Tail(rows))

RECURSIVE ShuffleGroups(_, _)
ShuffleGroups(rows, state) ==
    IF rows = <<>> THEN <<>>
    ELSE LET n == RunLength(rows)
             sh == RngShuffle(SubSeq(rows, 1, n), state)
         IN  sh.list \o ShuffleGroups(SubSeq(rows, n + 1, Len(rows)), sh.state)

\* SortedByPrio, had reverse=True been left out
SortedByPrio_ascending(s) ==
    LET pos(i) == 1 + Cardinality({j \in 1..Len(s) :
                        \/ s[j][2] < s[i][2]
                        \/ s[j][2] = s[i][2] /\ j < i})
    IN  [k \in 1..Len(s) |-> s[CHOOSE i \in 1..Len(s) : pos(i) = k]]

\* sorted(db, key=lambda x: x[1], reverse=True): stable, as list.sort is
SortedByPrio(s) ==
    LET pos(i) == 1 + Cardinality({j \in 1..Len(s) :
                        \/ s[j][2] > s[i][2]
                        \/ s[j][2] = s[i][2] /\ j < i})
    IN  [k \in 1..Len(s) |-> s[CHOOSE i \in 1..Len(s) : pos(i) = k]]

\* lines 149-156 of train_gather_trainingset
GroupedDb(facts, seed) == ShuffleGroups(SortedByPrio(facts), seed)

forward_db(grouped) == [i \in 1..Len(grouped) |-> <<grouped[i][1], grouped[i][3]>>]

reverse_db(grouped) == [i \in 1..Len(grouped) |-> <<grouped[i][3], grouped[i][1]>>]

-----------------------------------------------------------------------------
(* Scores.  A score s of the program is the integer s * Scale.             *)

RECURSIVE Factorial(_)
Factorial(n) == IF n <= 1 THEN 1 ELSE n * Factorial(n - 1)

\* the most prefixes a fact row or a typed line of the model expands to
MaxPrefixes == 4

Scale == 2 * Factorial(MaxPrefixes) * Factorial(MaxPrefixes)

Half == Scale \div 2

-----------------------------------------------------------------------------
(* The scheduler: train_generate_directional_trainingset.                  *)

\* IsToTrain, had the history not been cut to its last TRAIN_KEEP scores
IsToTrain_whole_history(trainsubdata, pair) ==
    LET history == DictGet(trainsubdata, pair, <<>>)
    IN  IF history = <<>> THEN TRUE
        ELSE \/ SumSeq(history) * ThresholdDen
                    < ThresholdNum * Scale * Len(history)
             \/ 2 * Len(history) < TRAIN_KEEP

\* IsToTrain, had the test been len(history) < TRAIN_KEEP * 2
IsToTrain_times_two(trainsubdata, pair) ==
    LET history == LastN(DictGet(trainsubdata, pair, <<>>), TRAIN_KEEP)
    IN  IF history = <<>> THEN TRUE
        ELSE \/ SumSeq(history) * ThresholdDen
                    < ThresholdNum * Scale * Len(history)
             \/ Len(history) < TRAIN_KEEP * 2

\* lines 130-137: TRUE when the pair is appended to to_train
IsToTrain(trainsubdata, pair) ==
    LET history == LastN(DictGet(trainsubdata, pair, <<>>), TRAIN_KEEP)
    IN  IF history = <<>> THEN TRUE
        ELSE \/ SumSeq(history) * ThresholdDen
                    < ThresholdNum * Scale * Len(history)
             \/ 2 * Len(history) < TRAIN_KEEP

\* lines 127-139: the two lists, in the order of grouped_db
Partition(trainsubdata, grouped_db) ==
    [to_train |-> SelectSeq(grouped_db,
                            LAMBDA pair : IsToTrain(trainsubdata, pair)),
     already_trained |-> SelectSeq(grouped_db,
                            LAMBDA pair : ~IsToTrain(trainsubdata, pair))]

\* SelectResult, had the slice of line 143 left out TRAIN_RETRAIN
SelectResult_no_retrain(to_train, already_trained) ==
    LET result == Take(to_train, TRAIN_SET_SIZE)
    IN  result \o Take(already_trained, TRAIN_SET_SIZE - Len(result))

\* SelectResult, had a short already_trained been padded from to_train
SelectResult_pads(to_train, already_trained) ==
    LET result == Take(to_train, TRAIN_SET_SIZE)
    IN  result \o Take(already_trained \o to_train,
                       TRAIN_SET_SIZE - Len(result) + TRAIN_RETRAIN)

\* lines 142-143, already_trained being shuffled already
SelectResult(to_train, already_trained) ==
    LET result == Take(to_train, TRAIN_SET_SIZE)
    IN  result \o Take(already_trained,
                       TRAIN_SET_SIZE - Len(result) + TRAIN_RETRAIN)

\* The outcomes of train_generate_directional_trainingset: random.shuffle
\* of lines 141 and 144 is the module-level generator, seeded by the
\* operating system, so each call yields any permutation.
DirectionalSets(trainsubdata, grouped_db) ==
    LET p == Partition(trainsubdata, grouped_db)
        sel(s1) == SelectResult(p.to_train, Permute(p.already_trained, s1))
    IN  UNION {{[to_train |-> p.to_train,
                 already_trained |-> p.already_trained,
                 result |-> Permute(sel(s1), s2)] :
                    s2 \in Perms(Len(sel(s1)))} :
                        s1 \in Perms(Len(p.already_trained))}

-----------------------------------------------------------------------------
(* Prompting and grading.                                                  *)

\* item.strip(",")
RECURSIVE LStrip(_)
LStrip(t) == IF t # <<>> /\ t[1] = "," THEN LStrip(Tail(t)) ELSE t

Strip(t) == Reversed(LStrip(Reversed(LStrip(t))))

\* A typed line is the sequence of its whitespace-separated items.
\* prefixes_parser: the set of the prefixes, or ValueError
prefixes_parser(line) ==
    LET r == expand_prefixes([i \in 1..Len(line) |-> Strip(line[i])])
    IN  IF r.err THEN [err |-> TRUE, value |-> {}]
        ELSE [err |-> FALSE, value |-> Range(r.items)]

\* parser=str of the reverse prompt never fails
str_parser(line) == [err |-> FALSE, value |-> line]

\* query, had a refused line been taken for an empty one
query_gives_up(value, parsed) ==
    IF value = <<>> THEN [kind |-> "none", value |-> {}]
    ELSE IF parsed.err THEN [kind |-> "none", value |-> {}]
    ELSE [kind |-> "value", value |-> parsed.value]

\* One round of the loop of query, `parsed` being parser(value): "none" for
\* an empty line, "retry" when the parser raises ValueError, else the value.
query(value, parsed) ==
    IF value = <<>> THEN [kind |-> "none", value |-> {}]
    ELSE IF parsed.err THEN [kind |-> "retry", value |-> {}]
    ELSE [kind |-> "value", value |-> parsed.value]

\* GradeForward, had line 215 (answer -= {primary}) been left out
GradeForward_keeps_primary(answer0, pair) ==
    LET primary == pair[2][1]
        score1 == IF primary \notin answer0 THEN 0 ELSE Half
        answer == answer0
        others == Range(Tail(pair[2])) \ {primary}
        lo == IF Cardinality(others) = 0 THEN 1 ELSE Cardinality(others)
        la == IF Cardinality(answer) = 0 THEN 1 ELSE Cardinality(answer)
    IN  IF others = answer
        THEN score1 + Half
        ELSE score1 + ((lo - Cardinality(others \ answer))
                       * (la - Cardinality(answer \ others)) * Half)
                      \div (lo * la)

GradeForward_full_primary(answer0, pair) ==
    LET primary == pair[2][1]
        score1 == IF primary \notin answer0 THEN 0 ELSE Scale
        answer == answer0 \ {primary}
        others == Range(Tail(pair[2])) \ {primary}
        lo == IF Cardinality(others) = 0 THEN 1 ELSE Cardinality(others)
        la == IF Cardinality(answer) = 0 THEN 1 ELSE Cardinality(answer)
    IN  IF others = answer
        THEN score1 + Half
        ELSE score1 + ((lo - Cardinality(others \ answer))
                       * (la - Cardinality(answer \ others)) * Half)
                      \div (lo * la)

\* lines 198-230: the score of a forward answer (a set of prefixes)
GradeForward(answer0, pair) ==
    LET primary == pair[2][1]
        score1 == IF primary \notin answer0 THEN 0 ELSE Half
        answer == answer0 \ {primary}
        others == Range(Tail(pair[2])) \ {primary}
        lo == IF Cardinality(others) = 0 THEN 1 ELSE Cardinality(others)
        la == IF Cardinality(answer) = 0 THEN 1 ELSE Cardinality(answer)
    IN  IF others = answer
        THEN score1 + Half
        ELSE score1 + ((lo - Cardinality(others \ answer))
                       * (la - Cardinality(answer \ others)) * Half)
                      \div (lo * la)

\* difflib.SequenceMatcher.find_longest_match without junk: the longest
\* common block, the earliest in a, then the earliest in b
LongestMatch(a, b) ==
    LET blocks == {m \in (1..Len(a)) \X (1..Len(b)) \X (1..Len(a)) :
                      /\ m[1] + m[3] - 1 <= Len(a)
                      /\ m[2] + m[3] - 1 <= Len(b)
                      /\ \A k \in 0..(m[3] - 1) : a[m[1] + k] = b[m[2] + k]}
    IN  IF blocks = {} THEN <<1, 1, 0>>
        ELSE CHOOSE m \in blocks : \A n \in blocks :
                \/ n[3] < m[3]
                \/ n[3] = m[3] /\ m[1] < n[1]
                \/ n[3] = m[3] /\ m[1] = n[1] /\ m[2] <= n[2]

\* the number of matched characters of get_matching_blocks
RECURSIVE Matches(_, _)
Matches(a, b) ==
    LET m == LongestMatch(a, b)
    IN  IF m[3] = 0 THEN 0
        ELSE m[3] + Matches(SubSeq(a, 1, m[1] - 1), SubSeq(b, 1, m[2] - 1))
                  + Matches(SubSeq(a, m[1] + m[3], Len(a)),
                            SubSeq(b, m[2] + m[3], Len(b)))

\* GradeReverse, had the ratio itself been recorded
GradeReverse_raw_ratio(answer, pair) ==
    LET country == pair[2]
        M == Matches(answer, country)
        T == Len(answer) + Len(country)
    IN  IF answer # <<>> THEN (2 * M * Scale) \div T ELSE 0

\* lines 255-266: answer is <<>> for None (an empty line)
GradeReverse(answer, pair) ==
    LET country == pair[2]
        M == Matches(answer, country)
        T == Len(answer) + Len(country)
    IN  IF answer # <<>> /\ 2 * M * CorrectDen >= CorrectNum * T
        THEN Scale
        ELSE 0

\* AppendScore, had it been trainsubdata[pair] = [score]
AppendScore_overwrites(trainsubdata, pair, score) ==
    DictPut(trainsubdata, pair, <<score>>)

\* trainsubdata.setdefault(pair, []).append(score)
AppendScore(trainsubdata, pair, score) ==
    DictPut(trainsubdata, pair, Append(DictGet(trainsubdata, pair, <<>>), score))

-----------------------------------------------------------------------------
(* Files.  A file holds the first `written` of the `size` bytes of the     *)
(* pickle of `val`; type is the type of the pickled object, "garbage" for  *)
(* bytes that are no pickle and "none" for a file nothing was written to.  *)

NoFile ==
    [exists |-> FALSE, type |-> "none", val |-> EmptyDict, written |-> 0, size |-> 0]

EmptyFile ==
    [exists |-> TRUE, type |-> "none", val |-> EmptyDict, written |-> 0, size |-> 0]

\* length of the pickle stream: the framing and one unit for each key
PickleSize(val) == 2 + Cardinality(DOMAIN val)

PickleFile(type, val) ==
    [exists |-> TRUE, type |-> type, val |-> val,
     written |-> PickleSize(val), size |-> PickleSize(val)]

GarbageFile ==
    [exists |-> TRUE, type |-> "garbage", val |-> EmptyDict, written |-> 1, size |-> 1]

\* pickle.load succeeds
Loadable(f) ==
    f.exists /\ f.type \in {"dict", "list"} /\ f.written = f.size /\ f.size > 0

\* What reached the operating system when pickle.dump returns: the file
\* object is buffered and not flushed, so nothing, a part or all of it.
FlushOutcomes(size) == {0, size \div 2, size}

\* read_trainfile and lines 284-291 of train: the dict, or an exception
\* other than FileNotFoundError
LoadTraindata(f, seed) ==
    IF ~f.exists
    THEN [err |-> FALSE,
          val |-> SetDefault(SetDefault(SetDefault(EmptyDict,
                      "seed", seed), "forward", EmptyDict), "reverse", EmptyDict)]
    ELSE IF ~Loadable(f) \/ f.type # "dict"
    THEN [err |-> TRUE, val |-> EmptyDict]
    ELSE [err |-> FALSE,
          val |-> SetDefault(SetDefault(SetDefault(f.val,
                      "seed", seed), "forward", EmptyDict), "reverse", EmptyDict)]

Store(seed, fwd, rev) ==
    SetDefault(SetDefault(SetDefault(EmptyDict,
        "seed", seed), "forward", fwd), "reverse", rev)

-----------------------------------------------------------------------------
(* The inputs of the model: databases, typed lines, history files.         *)

CHAD == <<"C", "H", "A", "D">>

CHAT == <<"C", "H", "A", "T">>

MALI == <<"M", "A", "L", "I">>

PERU == <<"P", "E", "R", "U">>

TOGO == <<"T", "O", "G", "O">>

tAA == <<"A", "A">>

tAB == <<"A", "B">>

tAC == <<"A", "C">>

tTZ == <<"T", "Z">>

tOA == <<"O", "A">>

tOB == <<"O", "B">>

t5V == <<"5", "V">>

\* AA--AC
tAA_AC == <<"A", "A", "-", "-", "A", "C">>

\* OA-OB
tOA_OB == <<"O", "A", "-", "O", "B">>

\* AC-AA, an inverted range
tAC_AA == <<"A", "C", "-", "A", "A">>

\* AB, with the comma the user typed after it
tABc == <<"A", "B", ",">>

\* a token neither regular expression matches
tBad == <<"?">>

rowChad == FactRow(CHAD, <<tAA_AC>>)

rowMali == FactRow(MALI, <<tTZ>>)

\* the primary prefix OA occurs again in the range
rowPeru == FactRow(PERU, <<tOA, tOA_OB>>)

rowTogo == FactRow(TOGO, <<t5V, tTZ>>)

dbOne == <<PrioRow(5), rowChad>>

dbTwo == <<rowChad, rowMali>>

dbThree == <<rowChad, rowMali, PrioRow(50), rowPeru>>

dbFour == <<rowChad, rowMali, PrioRow(50), rowPeru, rowTogo>>

dbInverted == <<rowChad, FactRow(MALI, <<tAC_AA>>)>>

\* CHAD is listed twice, at two priorities, with the same prefixes
dbTwice ==
    <<rowChad, rowMali, PrioRow(75), rowPeru, PrioRow(50), rowChad>>

\* a token that is neither a prefix nor a range, after a valid one
dbMalformed == <<rowChad, FactRow(MALI, <<tTZ, tBad>>)>>

ValidLines ==
    {<<>>, <<tAA_AC>>, <<tAA>>, <<tTZ>>, <<tABc, tTZ>>, <<tAA, tABc, tTZ>>,
     <<tAB>>, <<tOA>>, <<tOA_OB>>, <<tOB>>, <<t5V>>, <<t5V, tTZ>>,
     <<tAA_AC, tTZ>>, <<tAA, tAC>>}

InvalidLines == {<<tBad>>, <<tAC_AA>>, <<tAA, tBad>>}

SessionKeyboard ==
    [forward |-> {<<>>, <<tAA_AC>>, <<tTZ>>, <<tBad>>, <<tAC_AA>>},
     reverse |-> {<<>>, CHAD, MALI}]

GradeKeyboard ==
    [forward |-> ValidLines \cup InvalidLines,
     reverse |-> {<<>>, CHAD, CHAT, MALI, PERU, TOGO, <<"C", "A", "T">>}]

RunsKeyboard ==
    [forward |-> {<<tAA_AC>>, <<tBad>>}, reverse |-> {CHAD}]

\* the pairs of a fact store
FwdPairs(facts) == {<<f[1], f[3]>> : f \in Range(facts)}

RevPairs(facts) == {<<f[3], f[1]>> : f \in Range(facts)}

chadPrefixes == <<tAA, tAB, tAC>>

Mastered == <<Scale, Scale, Scale>>

InitialFiles ==
    {NoFile,
     GarbageFile,
     PickleFile("list", EmptyDict),
     PickleFile("dict", EmptyDict),
     PickleFile("dict", SetDefault(EmptyDict, "seed", 0)),
     PickleFile("dict", Store(0, EmptyDict, EmptyDict)),
     PickleFile("dict", Store(1, DictPut(EmptyDict, <<CHAD, chadPrefixes>>, Mastered),
                                 DictPut(EmptyDict, <<chadPrefixes, CHAD>>, Mastered)))}

-----------------------------------------------------------------------------
(* The run of the program.                                                 *)

NoPart ==
    [built |-> FALSE,
     forward |-> [to_train |-> <<>>, already_trained |-> <<>>],
     reverse |-> [to_train |-> <<>>, already_trained |-> <<>>]]

NoPrev ==
    [valid |-> FALSE, disk0 |-> NoFile, database |-> <<>>, built |-> FALSE,
     forward |-> <<>>, reverse |-> <<>>]

\* no codec call is being followed
NoCalc == [fn |-> "none"]

Terminal == {"done", "error", "killed"}

\* the state of a process that has just been started
Fresh ==
    /\ tmp = NoFile
    /\ pc = "start"
    /\ db = <<>>
    /\ traindata = EmptyDict
    /\ forward = <<>>
    /\ reverse = <<>>
    /\ part = NoPart
    /\ idx = 0
    /\ forward_score = 0
    /\ reverse_score = 0
    /\ invalid = 0
    /\ interrupted = FALSE
    /\ loaded = EmptyDict
    /\ asked = <<>>

Init ==
    /\ database \in {dbOne, dbTwo, dbInverted, dbMalformed}
    /\ keyboard = SessionKeyboard
    /\ disk \in InitialFiles
    /\ disk0 = disk
    /\ runs = 1
    /\ prev = NoPrev
    /\ calc = NoCalc
    /\ Fresh

\* the position after the questions up to number i of a phase are asked
AfterForward(fwd, rev, i) ==
    IF i < Len(fwd) THEN "forward"
    ELSE IF Len(rev) > 0 THEN "reverse"
    ELSE "dump"

AfterReverse(rev, i) == IF i < Len(rev) THEN "reverse" ELSE "dump"

\* lines 360-361: db = sorted(read_database(args.database))
ReadDatabase ==
    /\ pc = "start"
    /\ LET r == LoadDatabase(database)
       IN  IF r.err
           THEN /\ pc' = "error"
                /\ db' = db
           ELSE /\ pc' = "train"
                /\ db' = r.items
    /\ UNCHANGED <<calc, database, keyboard, disk, tmp, traindata, forward, reverse,
                   part, idx, forward_score, reverse_score, invalid,
                   interrupted, disk0, loaded, asked, runs, prev>>

\* lines 284-293: the history is loaded and completed with defaults
ReadTrainfile ==
    /\ pc = "train"
    /\ \E seed \in 0..MaxSeed :
         LET r == LoadTraindata(disk, seed)
         IN  IF r.err
             THEN /\ pc' = "error"
                  /\ UNCHANGED <<traindata, loaded>>
             ELSE /\ pc' = "enter"
                  /\ traindata' = r.val
                  /\ loaded' = r.val
    /\ UNCHANGED <<calc, database, keyboard, disk, tmp, db, forward, reverse, part,
                   idx, forward_score, reverse_score, invalid, interrupted,
                   disk0, asked, runs, prev>>

\* lines 114-118: write_trainfile creates the temporary file and yields
EnterWrite ==
    /\ pc = "enter"
    /\ tmp' = EmptyFile
    /\ pc' = "gather"
    /\ UNCHANGED <<calc, database, keyboard, disk, db, traindata, forward, reverse,
                   part, idx, forward_score, reverse_score, invalid,
                   interrupted, disk0, loaded, asked, runs, prev>>

\* lines 296-300: train_gather_trainingset
Gather ==
    /\ pc = "gather"
    /\ LET grouped == GroupedDb(db, traindata["seed"])
       IN  \E f \in DirectionalSets(traindata["forward"], forward_db(grouped)),
              r \in DirectionalSets(traindata["reverse"], reverse_db(grouped)) :
                /\ forward' = f.result
                /\ reverse' = r.result
                /\ part' = [built |-> TRUE,
                            forward |-> [to_train |-> f.to_train,
                                         already_trained |-> f.already_trained],
                            reverse |-> [to_train |-> r.to_train,
                                         already_trained |-> r.already_trained]]
                /\ pc' = AfterForward(f.result, r.result, 0)
    /\ idx' = 0
    /\ UNCHANGED <<calc, database, keyboard, disk, tmp, db, traindata,
                   forward_score, reverse_score, invalid, interrupted, disk0,
                   loaded, asked, runs, prev>>

\* AnswerForward, had the forward list been generated again after each score
AnswerForward_regathers ==
    /\ pc = "forward"
    /\ \E line \in keyboard.forward :
         LET q == query(line, prefixes_parser(line))
             pair == forward[idx + 1]
             score == GradeForward(q.value, pair)
         IN  /\ q.kind # "retry"
             /\ traindata' = [traindata EXCEPT
                     !["forward"] = AppendScore(@, pair, score)]
             /\ forward_score' = forward_score + score
             /\ \E f \in DirectionalSets(traindata'["forward"],
                        forward_db(GroupedDb(db, traindata["seed"]))) :
                    forward' = f.result
             /\ asked' = Append(asked, [dir |-> "forward", pair |-> pair,
                                        line |-> line, score |-> score,
                                        refused |-> invalid])
    /\ pc' = AfterForward(forward, reverse, idx + 1)
    /\ idx' = IF idx + 1 < Len(forward) THEN idx + 1 ELSE 0
    /\ invalid' = 0
    /\ UNCHANGED <<calc, database, keyboard, disk, tmp, db, reverse, part,
                   reverse_score, interrupted, disk0, loaded, runs, prev>>

\* train_single_forward with a line that query accepts
AnswerForward ==
    /\ pc = "forward"
    /\ \E line \in keyboard.forward :
         LET q == query(line, prefixes_parser(line))
             pair == forward[idx + 1]
             score == GradeForward(q.value, pair)
         IN  /\ q.kind # "retry"
             /\ traindata' = [traindata EXCEPT
                     !["forward"] = AppendScore(@, pair, score)]
             /\ forward_score' = forward_score + score
             /\ asked' = Append(asked, [dir |-> "forward", pair |-> pair,
                                        line |-> line, score |-> score,
                                        refused |-> invalid])
    /\ pc' = AfterForward(forward, reverse, idx + 1)
    /\ idx' = IF idx + 1 < Len(forward) THEN idx + 1 ELSE 0
    /\ invalid' = 0
    /\ UNCHANGED <<calc, database, keyboard, disk, tmp, db, forward, reverse, part,
                   reverse_score, interrupted, disk0, loaded, runs, prev>>

\* lines 190-194: the parser raises ValueError, query prompts again
InvalidForward ==
    /\ pc = "forward"
    /\ invalid < MaxInvalid
    /\ \E line \in keyboard.forward :
         query(line, prefixes_parser(line)).kind = "retry"
    /\ invalid' = invalid + 1
    /\ UNCHANGED <<calc, database, keyboard, disk, tmp, pc, db, traindata, forward,
                   reverse, part, idx, forward_score, reverse_score,
                   interrupted, disk0, loaded, asked, runs, prev>>

\* train_single_reverse
AnswerReverse ==
    /\ pc = "reverse"
    /\ \E line \in keyboard.reverse :
         LET q == query(line, str_parser(line))
             pair == reverse[idx + 1]
             answer == IF q.kind = "none" THEN <<>> ELSE q.value
             score == GradeReverse(answer, pair)
         IN  /\ traindata' = [traindata EXCEPT
                     !["reverse"] = AppendScore(@, pair, score)]
             /\ reverse_score' = reverse_score + score
             /\ asked' = Append(asked, [dir |-> "reverse", pair |-> pair,
                                        line |-> <<line>>, score |-> score,
                                        refused |-> 0])
    /\ pc' = AfterReverse(reverse, idx + 1)
    /\ idx' = IF idx + 1 < Len(reverse) THEN idx + 1 ELSE 0
    /\ UNCHANGED <<calc, database, keyboard, disk, tmp, db, forward, reverse, part,
                   forward_score, invalid, interrupted, disk0, loaded, runs,
                   prev>>

\* Interrupt, had pickle.dump and os.rename not been under `finally`
Interrupt_skips_save ==
    /\ pc \in {"forward", "reverse"}
    /\ interrupted' = TRUE
    /\ pc' = "error"
    /\ UNCHANGED <<calc, database, keyboard, disk, tmp, db, traindata, forward,
                   reverse, part, idx, forward_score, reverse_score, invalid,
                   disk0, loaded, asked, runs, prev>>

\* input() raises KeyboardInterrupt at a prompt: the exception leaves the
\* body of the with statement and the finally clause of line 119 runs
Interrupt ==
    /\ pc \in {"forward", "reverse"}
    /\ interrupted' = TRUE
    /\ pc' = "dump"
    /\ UNCHANGED <<calc, database, keyboard, disk, tmp, db, traindata, forward,
                   reverse, part, idx, forward_score, reverse_score, invalid,
                   disk0, loaded, asked, runs, prev>>

\* line 120: pickle.dump(data, f) into the buffered temporary file
Dump ==
    /\ pc = "dump"
    /\ \E w \in FlushOutcomes(PickleSize(traindata)) :
         tmp' = [exists |-> TRUE, type |-> "dict", val |-> traindata,
                 written |-> w, size |-> PickleSize(traindata)]
    /\ pc' = "rename"
    /\ UNCHANGED <<calc, database, keyboard, disk, db, traindata, forward, reverse,
                   part, idx, forward_score, reverse_score, invalid,
                   interrupted, disk0, loaded, asked, runs, prev>>

\* line 121: os.rename(f.name, filename); f is still open
Rename ==
    /\ pc = "rename"
    /\ disk' = tmp
    /\ tmp' = NoFile
    /\ pc' = "close"
    /\ UNCHANGED <<calc, database, keyboard, db, traindata, forward, reverse, part,
                   idx, forward_score, reverse_score, invalid, interrupted,
                   disk0, loaded, asked, runs, prev>>

\* the with statement of line 114 closes f: the buffer is flushed into the
\* file, which is now the file at the history path
Close ==
    /\ pc = "close"
    /\ disk' = [disk EXCEPT !.written = disk.size]
    /\ pc' = IF interrupted THEN "error" ELSE "report"
    /\ UNCHANGED <<calc, database, keyboard, tmp, db, traindata, forward, reverse,
                   part, idx, forward_score, reverse_score, invalid,
                   interrupted, disk0, loaded, asked, runs, prev>>

\* lines 305-321: the report divides by the number of questions
Report ==
    /\ pc = "report"
    /\ pc' = IF Len(forward) = 0 \/ Len(reverse) = 0 THEN "error" ELSE "done"
    /\ UNCHANGED <<calc, database, keyboard, disk, tmp, db, traindata, forward,
                   reverse, part, idx, forward_score, reverse_score, invalid,
                   interrupted, disk0, loaded, asked, runs, prev>>

\* The process is killed (or the machine stops) at any point of the run:
\* nothing more is written, and what the file object still buffers is
\* lost, so the files stay as the operating system has them.
Crash ==
    /\ pc \notin Terminal
    /\ pc' = "killed"
    /\ UNCHANGED <<calc, database, keyboard, disk, tmp, db, traindata, forward,
                   reverse, part, idx, forward_score, reverse_score, invalid,
                   interrupted, disk0, loaded, asked, runs, prev>>

\* the program is started again on the same database and history path; prev
\* keeps the lists of the run that ends if it left the history file as found
StartAgain ==
    /\ pc \in Terminal
    /\ runs' = runs + 1
    /\ prev' = IF disk = disk0
                THEN [valid |-> TRUE, disk0 |-> disk0, database |-> database,
                      built |-> part.built, forward |-> forward,
                      reverse |-> reverse]
                ELSE NoPrev
    /\ disk0' = disk
    /\ tmp' = NoFile
    /\ pc' = "start"
    /\ db' = <<>>
    /\ traindata' = EmptyDict
    /\ forward' = <<>>
    /\ reverse' = <<>>
    /\ part' = NoPart
    /\ idx' = 0
    /\ forward_score' = 0
    /\ reverse_score' = 0
    /\ invalid' = 0
    /\ interrupted' = FALSE
    /\ loaded' = EmptyDict
    /\ asked' = <<>>
    /\ UNCHANGED <<calc, database, keyboard, disk>>

Restart ==
    /\ runs < MaxRuns
    /\ StartAgain

Next ==
    \/ ReadDatabase
    \/ ReadTrainfile
    \/ EnterWrite
    \/ Gather
    \/ AnswerForward
    \/ InvalidForward
    \/ AnswerReverse
    \/ Interrupt
    \/ Dump
    \/ Rename
    \/ Close
    \/ Report
    \/ Crash

Spec == Init /\ [][Next]_vars

-----------------------------------------------------------------------------
(* Further specifications: the same actions from other starting points.    *)

\* Two and more runs of the program on the same history path.
InitRuns ==
    /\ database = dbTwo
    /\ keyboard = RunsKeyboard
    /\ disk \in {NoFile, PickleFile("dict", Store(0, EmptyDict, EmptyDict))}
    /\ disk0 = disk
    /\ runs = 1
    /\ prev = NoPrev
    /\ calc = NoCalc
    /\ Fresh

NextRuns == Next \/ Restart

SpecRuns == InitRuns /\ [][NextRuns]_vars

\* a run that has loaded `store` from the history file and `rows` from the
\* database and is about to call train_gather_trainingset
AtGather(rows, store) ==
    /\ database = rows
    /\ keyboard = SessionKeyboard
    /\ disk = PickleFile("dict", store)
    /\ disk0 = disk
    /\ tmp = EmptyFile
    /\ pc = "gather"
    /\ db = LoadDatabase(rows).items
    /\ traindata = store
    /\ loaded = store
    /\ forward = <<>>
    /\ reverse = <<>>
    /\ part = NoPart
    /\ idx = 0
    /\ forward_score = 0
    /\ reverse_score = 0
    /\ invalid = 0
    /\ interrupted = FALSE
    /\ asked = <<>>
    /\ runs = 1
    /\ prev = NoPrev
    /\ calc = NoCalc

\* the histories of one pair: the scores a direction can record
Histories(scores) == UNION {[1..n -> scores] : n \in 1..MaxHist}

ForwardScores == {0, Half, Scale}

ReverseScores == {0, Scale}

\* not asked yet, asked once, mastered, failed
Levels == {<<>>, <<Scale>>, <<Scale, Scale, Scale>>, <<0, 0, 0>>}

\* the sub-map that gives the pairs of `pairs` the histories lv[i]; a pair
\* with the level <<>> has no entry
SubMap(pairs, lv) ==
    LET keys == {i \in 1..Len(pairs) : lv[i] # <<>>}
    IN  [pair \in {pairs[i] : i \in keys} |->
            lv[CHOOSE i \in keys : pairs[i] = pair]]

\* The scheduler on bounded inputs: one fact with every history up to
\* MaxHist scores, and three or four facts (in dbTwice two of them with the
\* same pair) at every combination of levels.
InitSched ==
    \E seed \in 0..MaxSeed :
        \/ \E h \in Histories(ForwardScores) :
              AtGather(dbOne, Store(seed,
                  DictPut(EmptyDict, <<CHAD, chadPrefixes>>, h), EmptyDict))
        \/ \E h \in Histories(ReverseScores) :
              AtGather(dbOne, Store(seed, EmptyDict,
                  DictPut(EmptyDict, <<chadPrefixes, CHAD>>, h)))
        \/ \E rows \in {dbThree, dbFour, dbTwice} :
              LET facts == LoadDatabase(rows).items
              IN  \E lv \in [1..Len(facts) -> Levels] :
                    \/ AtGather(rows, Store(seed,
                          SubMap(forward_db(facts), lv), EmptyDict))
                    \/ AtGather(rows, Store(seed, EmptyDict,
                          SubMap(reverse_db(facts), lv)))

NextSched == Gather

SpecSched == InitSched /\ [][NextSched]_vars

\* The grading on bounded inputs: a database of one fact, no history file,
\* the run at its first prompt, and every line of GradeKeyboard.
InitGrade ==
    \E row \in {rowChad, rowMali, rowPeru, rowTogo}, seed \in 0..MaxSeed :
        LET facts == LoadDatabase(<<row>>).items
            store == Store(seed, EmptyDict, EmptyDict)
        IN  /\ database = <<row>>
            /\ keyboard = GradeKeyboard
            /\ disk = NoFile
            /\ disk0 = disk
            /\ tmp = EmptyFile
            /\ pc = "forward"
            /\ db = facts
            /\ traindata = store
            /\ loaded = store
            /\ forward = forward_db(facts)
            /\ reverse = reverse_db(facts)
            /\ part = [built |-> TRUE,
                       forward |-> [to_train |-> forward_db(facts),
                                    already_trained |-> <<>>],
                       reverse |-> [to_train |-> reverse_db(facts),
                                    already_trained |-> <<>>]]
            /\ idx = 0
            /\ forward_score = 0
            /\ reverse_score = 0
            /\ invalid = 0
            /\ interrupted = FALSE
            /\ asked = <<>>
            /\ runs = 1
            /\ prev = NoPrev
            /\ calc = NoCalc

NextGrade == AnswerForward \/ InvalidForward \/ AnswerReverse

SpecGrade == InitGrade /\ [][NextGrade]_vars

\* Sessions one after another on one fact: the first starts without a
\* history file, or from the file that TRAIN_KEEP earlier sessions left.
MaxSessions == 3

KeptScores == [i \in 1..TRAIN_KEEP |-> Scale]

InitSessions ==
    /\ database = dbOne
    /\ keyboard = [forward |-> {<<tAA_AC>>, <<tAB>>, <<tBad>>},
                   reverse |-> {<<>>, CHAD, CHAT, <<"C", "A", "T">>}]
    /\ disk \in {NoFile,
                 PickleFile("dict", Store(0,
                     DictPut(EmptyDict, <<CHAD, chadPrefixes>>, KeptScores),
                     DictPut(EmptyDict, <<chadPrefixes, CHAD>>, KeptScores)))}
    /\ disk0 = disk
    /\ runs = 1
    /\ prev = NoPrev
    /\ calc = NoCalc
    /\ Fresh

NextSession ==
    /\ runs < MaxSessions
    /\ StartAgain

NextSessions == Next \/ NextSession

SpecSessions == InitSessions /\ [][NextSessions]_vars

\* The codec on bounded inputs: the round trip of every string of up to
\* MaxLen sample characters, and expand_prefixset on every two ends of up
\* to MaxEndLen sample characters whose numbers are at most MaxSpan apart.
MaxLen == 3

MaxEndLen == 2

MaxSpan == 12

\* the strings of at most n characters of chars
Strings(chars, n) == UNION {[1..k -> chars] : k \in 0..n}

RangeEnds ==
    LET ends == Strings({"0", "9", "A", "B", "Z"}, MaxEndLen) \ {<<>>}
    IN  {ab \in ends \X ends :
            LET d == prefix_to_base37(ab[2]) - prefix_to_base37(ab[1])
            IN  -MaxSpan <= d /\ d <= MaxSpan}

InitCodec ==
    /\ \/ \E s \in Strings({" ", "0", "9", "A", "Z"}, MaxLen) :
             calc = [fn |-> "roundtrip", stage |-> "input", a |-> s, b |-> <<>>,
                     num |-> 0, err |-> FALSE, out |-> <<>>]
       \/ \E ab \in RangeEnds :
             calc = [fn |-> "expand", stage |-> "input", a |-> ab[1],
                     b |-> ab[2], num |-> 0, err |-> FALSE, out |-> <<>>]
    /\ database = <<>>
    /\ keyboard = SessionKeyboard
    /\ disk = NoFile
    /\ disk0 = disk
    /\ runs = 1
    /\ prev = NoPrev
    /\ Fresh

\* num = prefix_to_base37(s)
Encode ==
    /\ calc.fn = "roundtrip"
    /\ calc.stage = "input"
    /\ calc' = [calc EXCEPT !.stage = "encoded", !.num = prefix_to_base37(calc.a)]
    /\ UNCHANGED <<database, keyboard, disk, tmp, pc, db, traindata, forward,
                   reverse, part, idx, forward_score, reverse_score, invalid,
                   interrupted, disk0, loaded, asked, runs, prev>>

\* base37_to_prefix(num)
Decode ==
    /\ calc.fn = "roundtrip"
    /\ calc.stage = "encoded"
    /\ calc' = [calc EXCEPT !.stage = "done", !.out = base37_to_prefix(calc.num)]
    /\ UNCHANGED <<database, keyboard, disk, tmp, pc, db, traindata, forward,
                   reverse, part, idx, forward_score, reverse_score, invalid,
                   interrupted, disk0, loaded, asked, runs, prev>>

\* tuple(expand_prefixset(start, end))
Expand ==
    /\ calc.fn = "expand"
    /\ calc.stage = "input"
    /\ LET r == expand_prefixset(calc.a, calc.b)
       IN  calc' = [calc EXCEPT !.stage = "done", !.err = r.err, !.out = r.items]
    /\ UNCHANGED <<database, keyboard, disk, tmp, pc, db, traindata, forward,
                   reverse, part, idx, forward_score, reverse_score, invalid,
                   interrupted, disk0, loaded, asked, runs, prev>>

NextCodec == Encode \/ Decode \/ Expand

SpecCodec == InitCodec /\ [][NextCodec]_vars

\* Sessions in which every question is answered fully correctly, one after
\* another until every pair is mastered, at most MaxPerfect of them; three
\* facts of two priorities at every combination of levels.
MaxPerfect == 8

\* every pair of both directions is mastered by the history `store`
AllMastered(store) ==
    LET facts == LoadDatabase(database).items
    IN  /\ \A pair \in FwdPairs(facts) : ~IsToTrain(store["forward"], pair)
        /\ \A pair \in RevPairs(facts) : ~IsToTrain(store["reverse"], pair)

InitProgress ==
    /\ database = dbThree
    /\ keyboard = [forward |-> {<<tAA_AC>>, <<tTZ>>, <<tOA_OB>>},
                   reverse |-> {CHAD, MALI, PERU}]
    /\ \E lv \in [1..3 -> Levels] :
          LET facts == LoadDatabase(dbThree).items
          IN  disk = PickleFile("dict", Store(0, SubMap(forward_db(facts), lv),
                                                 SubMap(reverse_db(facts), lv)))
    /\ disk0 = disk
    /\ runs = 1
    /\ prev = NoPrev
    /\ calc = NoCalc
    /\ Fresh

\* the forward question is answered with exactly the prefixes of the fact
PerfectForward ==
    /\ AnswerForward
    /\ asked'[Len(asked')].score = Scale

\* the reverse question is answered with the country
PerfectReverse ==
    /\ AnswerReverse
    /\ asked'[Len(asked')].score = Scale

\* the next session is started as long as a pair is left to train
NextPerfectSession ==
    /\ runs < MaxPerfect
    /\ pc = "done"
    /\ ~AllMastered(disk.val)
    /\ StartAgain

NextProgress ==
    \/ ReadDatabase
    \/ ReadTrainfile
    \/ EnterWrite
    \/ Gather
    \/ PerfectForward
    \/ PerfectReverse
    \/ Dump
    \/ Rename
    \/ Close
    \/ Report
    \/ NextPerfectSession

SpecProgress == InitProgress /\ [][NextProgress]_vars

-----------------------------------------------------------------------------
(* Properties.                                                             *)

Dirs == {"forward", "reverse"}

OtherDir(d) == IF d = "forward" THEN "reverse" ELSE "forward"

SessionList(d) == IF d = "forward" THEN forward ELSE reverse

Candidates(d) == IF d = "forward" THEN FwdPairs(db) ELSE RevPairs(db)

InSeq(x, s) == \E i \in 1..Len(s) : s[i] = x

\* the history file holds the complete pickle of a dict
Complete(f) == Loadable(f) /\ f.type = "dict"

\* C1: at every step of write_trainfile, and after a crash at any of them,
\* the file at the history path is the file the run started from or the
\* complete new store, never partial or empty content.
C1_SaveIsAtomic ==
    \/ disk = disk0
    \/ Complete(disk) /\ disk.val = traindata

\* C2: a graded question appends exactly one score to the end of the entry
\* of its pair in the sub-map of its direction and changes nothing else:
\* not the other sub-map, another pair, the earlier scores, the seed or the
\* fact store; and a prompt is left only by grading (or by an interrupt or
\* the death of the process).
C2_OneScoreAppended ==
    [][/\ Len(asked') > Len(asked) =>
            LET e == asked'[Len(asked')]
                before == traindata[e.dir]
                after == traindata'[e.dir]
            IN  /\ Len(asked') = Len(asked) + 1
                /\ e.pair = SessionList(e.dir)[idx + 1]
                /\ DOMAIN after = DOMAIN before \cup {e.pair}
                /\ after[e.pair] =
                      (IF e.pair \in DOMAIN before THEN before[e.pair] ELSE <<>>)
                      \o <<e.score>>
                /\ \A q \in DOMAIN before \ {e.pair} : after[q] = before[q]
                /\ traindata'[OtherDir(e.dir)] = traindata[OtherDir(e.dir)]
                /\ traindata'["seed"] = traindata["seed"]
                /\ DOMAIN traindata' = DOMAIN traindata
                /\ db' = db
       /\ (pc \in Dirs /\ <<pc, idx>>' # <<pc, idx>>
              /\ pc' # "killed" /\ ~interrupted') =>
            Len(asked') = Len(asked) + 1
       /\ (pc \in Dirs /\ traindata' # traindata) =>
            Len(asked') = Len(asked) + 1
      ]_vars

\* a wrong or empty answer and a correct one have both been recorded, the
\* correct one for a pair that had a history already
C2_Witness ==
    /\ \E i \in 1..Len(asked) : asked[i].score = 0
    /\ \E i \in 1..Len(asked) :
          /\ asked[i].score = Scale
          /\ asked[i].dir = "reverse"
          /\ asked[i].pair \in DOMAIN loaded["reverse"]

\* the last TRAIN_KEEP scores of a history
LastScores(h) ==
    LET n == Min(TRAIN_KEEP, Len(h))
    IN  [i \in 1..n |-> h[Len(h) - n + i]]

\* the history is absent, or fewer than K/2 of its last K scores exist, or
\* their mean is below 0.8
Untrained(submap, pair) ==
    \/ pair \notin DOMAIN submap
    \/ 2 * Len(LastScores(submap[pair])) < TRAIN_KEEP
    \/ ThresholdDen * SumSeq(LastScores(submap[pair]))
          < ThresholdNum * Scale * Len(LastScores(submap[pair]))

\* C3: a pair is in to_train iff its history is absent, or has fewer than
\* K/2 scores among the last K, or the mean of the last K is below 0.8;
\* every other pair is in already_trained.
C3_Partition ==
    part.built =>
        \A d \in Dirs : \A pair \in Candidates(d) :
            /\ InSeq(pair, part[d].to_train) <=> Untrained(loaded[d], pair)
            /\ InSeq(pair, part[d].already_trained) <=> ~Untrained(loaded[d], pair)

\* a pair is mastered by its last TRAIN_KEEP scores only: the mean of its
\* whole, longer history is below the threshold
C3_Witness ==
    /\ part.built
    /\ \E pair \in Range(part.forward.already_trained) :
          /\ Len(loaded["forward"][pair]) > TRAIN_KEEP
          /\ ThresholdDen * SumSeq(loaded["forward"][pair])
                < ThresholdNum * Scale * Len(loaded["forward"][pair])

\* the number of items of the list s that are members of the list t
CountIn(s, t) == Cardinality({i \in 1..Len(s) : InSeq(s[i], t)})

\* C4: the session list of a direction holds min(|to_train|, N) untrained
\* pairs and min(|already_trained|, N + R - min(|to_train|, N)) mastered
\* pairs: at most N + R items, min(R, |already_trained|) mastered ones when
\* to_train reaches N, and no padding.
C4_SessionSize ==
    part.built =>
        \A d \in Dirs :
            LET tt == Len(part[d].to_train)
                at == Len(part[d].already_trained)
                nt == Min(tt, TRAIN_SET_SIZE)
                na == Min(at, TRAIN_SET_SIZE + TRAIN_RETRAIN - nt)
            IN  /\ Len(SessionList(d)) = nt + na
                /\ CountIn(SessionList(d), part[d].to_train) = nt
                /\ CountIn(SessionList(d), part[d].already_trained) = na
                /\ Len(SessionList(d)) <= TRAIN_SET_SIZE + TRAIN_RETRAIN
                /\ tt >= TRAIN_SET_SIZE => na = Min(TRAIN_RETRAIN, at)
                /\ Len(SessionList(d)) <= tt + at

\* to_train alone reaches N and a mastered pair is in the list all the same
C4_Witness ==
    /\ part.built
    /\ Len(part.forward.to_train) >= TRAIN_SET_SIZE
    /\ Len(part.forward.already_trained) >= 1
    /\ CountIn(forward, part.forward.already_trained) >= 1

\* C5: two runs that start from the same history file and the same fact
\* database build the same forward list and the same reverse list.
C5_SameFileSameLists ==
    (/\ prev.valid /\ prev.built /\ part.built
     /\ disk0.exists
     /\ prev.disk0 = disk0
     /\ prev.database = database)
        => forward = prev.forward /\ reverse = prev.reverse

\* the store that results from recording the log on top of `store`
RECURSIVE Replay(_, _)
Replay(store, log) ==
    IF log = <<>> THEN store
    ELSE LET e == log[Len(log)]
             s == Replay(store, SubSeq(log, 1, Len(log) - 1))
             old == IF e.pair \in DOMAIN s[e.dir] THEN s[e.dir][e.pair] ELSE <<>>
         IN  [s EXCEPT ![e.dir] =
                [q \in DOMAIN s[e.dir] \cup {e.pair} |->
                    IF q = e.pair THEN old \o <<e.score>> ELSE s[e.dir][q]]]

\* C6: when the user interrupts the session at a prompt after k graded
\* questions, the run ends with the history file holding the loaded
\* history plus exactly the k scores of these questions.
C6_InterruptSaves ==
    (interrupted /\ pc = "error") =>
        /\ Complete(disk)
        /\ disk.val = Replay(loaded, asked)
        /\ disk.val = traindata

\* interrupted in the middle of a phase, after at least one graded question
C6_Witness ==
    /\ interrupted
    /\ pc = "error"
    /\ Len(asked) >= 1
    /\ idx > 0

\* C7: a refused submission is no attempt: the same question is prompted
\* again, no score is recorded and the totals stay; the score a pair gets
\* is the grade of the submission that was accepted, which parses.
C7_RefusedIsNoAttempt ==
    [][/\ invalid' > invalid =>
            /\ traindata' = traindata
            /\ asked' = asked
            /\ pc' = pc /\ idx' = idx
            /\ forward_score' = forward_score
            /\ reverse_score' = reverse_score
       /\ (Len(asked') > Len(asked) /\ asked'[Len(asked')].dir = "forward") =>
            LET e == asked'[Len(asked')]
                parsed == prefixes_parser(e.line)
            IN  /\ ~parsed.err
                /\ e.score = GradeForward(parsed.value, e.pair)
                /\ e.pair = forward[idx + 1]
                /\ Len(traindata'["forward"][e.pair]) =
                      1 + (IF e.pair \in DOMAIN traindata["forward"]
                           THEN Len(traindata["forward"][e.pair]) ELSE 0)
                /\ forward_score' = forward_score + e.score
      ]_vars

\* a question was graded after two refused submissions
C7_Witness ==
    \E i \in 1..Len(asked) :
        /\ asked[i].dir = "forward"
        /\ asked[i].refused >= 2
        /\ asked[i].score = Scale

\* the file is there but is no pickle of {seed, forward, reverse}
Malformed(f) ==
    /\ f.exists
    /\ \/ ~Complete(f)
       \/ DOMAIN f.val # {"seed", "forward", "reverse"}

\* C8: with a history file that is unreadable or has not the structure
\* {seed, forward, reverse} the run stops before any question is asked and
\* leaves the file as it is.
C8_CorruptHistoryStops ==
    Malformed(disk0) =>
        /\ pc \in {"start", "train", "error", "killed"}
        /\ asked = <<>>
        /\ disk = disk0

\* the secondary prefixes of a forward pair: the others without the primary
Secondary(pair) == Range(Tail(pair[2])) \ {pair[2][1]}

\* C9: the forward score is 0.5 for the primary plus
\* 0.5 * (1 - |missing|/max(1,|secondary|)) * (1 - |extra|/max(1,|rest|)),
\* rest being the submission without the primary; the exact match scores 1
\* and the primary alone, secondary prefixes existing, scores 0.5.
C9_ForwardFormula ==
    \A i \in 1..Len(asked) :
        asked[i].dir = "forward" =>
            LET submitted == prefixes_parser(asked[i].line).value
                primary == asked[i].pair[2][1]
                secondary == Secondary(asked[i].pair)
                rest == submitted \ {primary}
                missing == secondary \ submitted
                extra == rest \ secondary
                ds == Max(1, Cardinality(secondary))
                dr == Max(1, Cardinality(rest))
                hit == IF primary \in submitted THEN 1 ELSE 0
            IN  /\ asked[i].score * 2 * ds * dr =
                      Scale * (hit * ds * dr
                               + (ds - Cardinality(missing))
                                 * (dr - Cardinality(extra)))
                /\ submitted = {primary} \cup secondary => asked[i].score = Scale
                /\ (submitted = {primary} /\ secondary # {})
                      => asked[i].score = Half

\* an answer with the primary, a missing and a surplus secondary prefix
C9_Witness ==
    \E i \in 1..Len(asked) :
        /\ asked[i].dir = "forward"
        /\ asked[i].pair[2][1] \in prefixes_parser(asked[i].line).value
        /\ Secondary(asked[i].pair) \ prefixes_parser(asked[i].line).value # {}
        /\ (prefixes_parser(asked[i].line).value \ {asked[i].pair[2][1]})
              \ Secondary(asked[i].pair) # {}
        /\ asked[i].score > Half
        /\ asked[i].score < Scale

\* C10: an empty forward answer is recorded with the score 0, whatever the
\* number of secondary prefixes of the pair.
C10_EmptyAnswerScoresZero ==
    \A i \in 1..Len(asked) :
        (asked[i].dir = "forward" /\ asked[i].line = <<>>) => asked[i].score = 0

StoredScores(store, d) ==
    IF d \in DOMAIN store
    THEN UNION {Range(store[d][pair]) : pair \in DOMAIN store[d]}
    ELSE {}

C13_RoundTrip ==
    (calc.fn = "roundtrip" /\ calc.stage = "done") => calc.out = calc.a

\* C14: for alphanumeric ends a, b with encode(a) <= encode(b),
\* expand_prefixset yields encode(b) - encode(a) + 1 strings, the first a,
\* the last b, their numbers ascending by one.
C14_RangeExpansion ==
    (/\ calc.fn = "expand"
     /\ calc.stage = "done"
     /\ prefix_to_base37(calc.a) <= prefix_to_base37(calc.b))
        => /\ ~calc.err
           /\ Len(calc.out) = prefix_to_base37(calc.b) - prefix_to_base37(calc.a) + 1
           /\ calc.out[1] = calc.a
           /\ calc.out[Len(calc.out)] = calc.b
           /\ \A i \in 1..(Len(calc.out) - 1) :
                 prefix_to_base37(calc.out[i + 1]) = prefix_to_base37(calc.out[i]) + 1

\* a range of several strings from a shorter to a longer end
C14_Witness ==
    /\ calc.fn = "expand"
    /\ calc.stage = "done"
    /\ Len(calc.a) < Len(calc.b)
    /\ Len(calc.out) >= 3

\* a range whose end encodes below its start
InvertedRange(t) ==
    LET m == SetMatch(t)
    IN  /\ m # <<>>
        /\ prefix_to_base37(SubSeq(t, m[2] + 1, Len(t)))
              < prefix_to_base37(SubSeq(t, 1, m[1]))

\* a token that is neither a range nor one alphanumeric prefix
MalformedToken(t) == SetMatch(t) = <<>> /\ ~IsAlNumRun(t)

BadDatabase(rows) ==
    \E i \in 1..Len(rows) :
        /\ rows[i].kind = "fact"
        /\ \E k \in 1..Len(rows[i].parts) :
              InvertedRange(rows[i].parts[k]) \/ MalformedToken(rows[i].parts[k])

\* C15: with an inverted range or a malformed token anywhere in the
\* database the load fails as a whole: no fact is produced, no training set
\* is built, no question is asked and the history file is neither read
\* nor written.
C15_BadDatabaseStopsAll ==
    BadDatabase(database) =>
        /\ pc \in {"start", "error", "killed"}
        /\ db = <<>>
        /\ ~part.built
        /\ forward = <<>> /\ reverse = <<>>
        /\ asked = <<>>
        /\ loaded = EmptyDict /\ traindata = EmptyDict
        /\ tmp = NoFile
        /\ disk = disk0

\* the load of a bad database has failed with a history file in place
C15_Witness ==
    /\ BadDatabase(database)
    /\ pc = "error"
    /\ Complete(disk)

\* C16: no pair's history in the history file, in either sub-map, holds more
\* than TRAIN_KEEP scores.
C16_HistoryBounded ==
    Complete(disk) =>
        \A d \in Dirs :
            d \in DOMAIN disk.val =>
                \A pair \in DOMAIN disk.val[d] : Len(disk.val[d][pair]) <= TRAIN_KEEP

\* C17: both session lists are built in one step, before the first score of
\* the run is appended and from the history as loaded; no later step of the
\* run, the scoring steps of either phase included, changes a list.
C17_ListsBuiltBeforeScores ==
    [][/\ (~part.built /\ part'.built) =>
             /\ asked = <<>> /\ asked' = <<>>
             /\ traindata = loaded /\ traindata' = loaded'
             /\ \A d \in Dirs :
                   /\ \A i \in 1..Len(SessionList(d)') :
                         SessionList(d)'[i] \in Candidates(d)'
                   /\ \A pair \in Candidates(d)' :
                         InSeq(pair, part'[d].to_train)
                            <=> Untrained(loaded'[d], pair)
       /\ (part.built /\ part'.built) =>
             /\ forward' = forward
             /\ reverse' = reverse
             /\ part' = part
             /\ loaded' = loaded
       /\ asked' # asked /\ asked' # <<>> => part.built
      ]_vars

\* the forward phase has recorded scores for two pairs and the reverse
\* phase is under way on the list built before them
C17_Witness ==
    /\ part.built
    /\ pc = "reverse"
    /\ Len(forward) >= 2
    /\ Len(reverse) >= 2
    /\ \E i \in 1..Len(asked) : asked[i].dir = "reverse"
    /\ traindata["forward"] # loaded["forward"]

\* the pair a fact gives to the direction d
PairOf(d, f) == IF d = "forward" THEN <<f[1], f[3]>> ELSE <<f[3], f[1]>>

FactsDistinct == \A i, j \in 1..Len(db) : i # j => db[i] # db[j]

\* no two facts have the same country and the same prefixes
PairsDistinct ==
    \A i, j \in 1..Len(db) :
        i # j => PairOf("forward", db[i]) # PairOf("forward", db[j])

\* each list holds pairs of the fact store only, none of them twice, and no
\* pair is in to_train and in already_trained
NoPairTwice ==
    \A d \in Dirs :
        /\ \A i \in 1..Len(SessionList(d)) : SessionList(d)[i] \in Candidates(d)
        /\ \A i, j \in 1..Len(SessionList(d)) :
              i # j => SessionList(d)[i] # SessionList(d)[j]
        /\ Range(part[d].to_train) \cap Range(part[d].already_trained) = {}

\* C18: for a fact store of pairwise distinct facts each session list holds
\* only pairs of the fact store and no pair twice.
C18_DistinctFactsNoRepeat == (part.built /\ FactsDistinct) => NoPairTwice

\* C18 as the code has it: the same for a fact store in which no two facts
\* have the same country and the same prefixes.
C18_DistinctPairsNoRepeat == (part.built /\ PairsDistinct) => NoPairTwice

\* a list of untrained and mastered pairs of a store of distinct pairs
C18_Witness ==
    /\ part.built
    /\ PairsDistinct
    /\ Len(db) >= 4
    /\ Len(forward) = TRAIN_SET_SIZE + TRAIN_RETRAIN
    /\ CountIn(forward, part.forward.already_trained) >= 1
    /\ CountIn(forward, part.forward.to_train) >= 1

\* with an untrained pair of the list, the list holds every untrained pair
\* of its direction that a fact gives at a higher priority
HigherPriorityFirst ==
    \A d \in Dirs : \A f, g \in Range(db) :
        (/\ Untrained(loaded[d], PairOf(d, f))
         /\ Untrained(loaded[d], PairOf(d, g))
         /\ g[2] > f[2]
         /\ InSeq(PairOf(d, f), SessionList(d)))
            => InSeq(PairOf(d, g), SessionList(d))

\* C19: if an untrained pair of priority p is in a session list, every
\* untrained pair of that direction of a priority above p is in it too.
C19_PriorityOrder == part.built => HigherPriorityFirst

\* C19 as the code has it: the same for a fact store in which no two facts
\* have the same country and the same prefixes, so that a pair has one
\* priority.
C19_PriorityOrderOfDistinctPairs ==
    (part.built /\ PairsDistinct) => HigherPriorityFirst

\* more untrained pairs than TRAIN_SET_SIZE, of two priorities: one of the
\* lower priority is selected and one is left out
C19_Witness ==
    /\ part.built
    /\ PairsDistinct
    /\ Len(part.forward.to_train) > TRAIN_SET_SIZE
    /\ \E f, g \in Range(db) :
          /\ g[2] > f[2]
          /\ Untrained(loaded.forward, PairOf("forward", g))
          /\ InSeq(PairOf("forward", f), part.forward.to_train)
          /\ InSeq(PairOf("forward", f), forward)
    /\ \E f \in Range(db) :
          /\ InSeq(PairOf("forward", f), part.forward.to_train)
          /\ ~InSeq(PairOf("forward", f), forward)

\* the number of full scores a history lacks to be mastered
RECURSIVE Need(_)
Need(h) ==
    IF Untrained(DictPut(EmptyDict, "pair", h), "pair")
    THEN 1 + Need(Append(h, Scale))
    ELSE 0

\* the full scores the pairs of the fact store lack, both directions
Deficit(store) ==
    SumSeq([i \in 1..Len(db) |->
               Need(DictGet(store["forward"], PairOf("forward", db[i]), <<>>))
             + Need(DictGet(store["reverse"], PairOf("reverse", db[i]), <<>>))])

\* the history file has every pair of both directions mastered
EveryPairMastered ==
    /\ Complete(disk)
    /\ \A d \in Dirs : \A pair \in Candidates(d) : ~Untrained(disk.val[d], pair)

\* C20: with every question of every session answered fully correctly,
\* after finitely many completed sessions every pair of both directions is
\* mastered, the pairs of the lower priority included: a completed session
\* leaves every pair mastered, or it leaves fewer full scores lacking than
\* it found and the next session, within MaxPerfect, can start.
C20_Progress ==
    pc = "done" =>
        \/ EveryPairMastered
        \/ /\ Complete(disk)
           /\ Deficit(disk.val) < Deficit(disk0.val)
           /\ runs < MaxPerfect

\* mastered after several sessions: a pair of the lower priority that had
\* failed three times has four full scores after them
C20_Witness ==
    /\ pc = "done"
    /\ EveryPairMastered
    /\ runs >= 5
    /\ \E f \in Range(db) :
          /\ f[2] < DefaultPrio
          /\ Len(disk.val.forward[PairOf("forward", f)]) >= 7
          /\ disk.val.forward[PairOf("forward", f)][1] = 0

\* C21: every string of the expansion of a range whose two ends are
\* alphanumeric and of equal length has the length of the ends and consists
\* of digits and letters only, never of the space digit.
C21_ExpansionIsAlphanumeric ==
    (/\ calc.fn = "expand"
     /\ calc.stage = "done"
     /\ ~calc.err
     /\ IsAlNumRun(calc.a)
     /\ IsAlNumRun(calc.b)
     /\ Len(calc.a) = Len(calc.b))
        => \A i \in 1..Len(calc.out) :
              /\ Len(calc.out[i]) = Len(calc.a)
              /\ IsAlNumRun(calc.out[i])

====
